---- MODULE Spec2Model ----
(***************************************************************************)
(* A model of the CPU performance predictor: the dense Matrix class, the   *)
(* LinearRegression class built on it (normal equation, ridge regression,  *)
(* prediction, scoring, k-fold cross-validation), the Evaluator and its    *)
(* metrics, and the menu loop of main.                                     *)
(*                                                                         *)
(* Numbers.  The program computes in IEEE doubles.  The model computes in  *)
(* exact rationals <<n, d>> (d > 0, lowest terms), a magnitude below the   *)
(* tolerance 1e-10 as <<n, d, 1>>, in units of 1e-10; std::sqrt is modelled*)
(* by a square root rounded down to a multiple of 1/SqrtScale, and the     *)
(* quotient 0.0/0 by the value NaN.  Indices are those of the code         *)
(* (0-based); a TLA+ sequence holds element i of the code at i + 1.        *)
(***************************************************************************)
EXTENDS Integers, Sequences, FiniteSets, TLC

(***************************************************************************)
(* Bounds of the model.                                                    *)
(***************************************************************************)
\* sqrt is rounded down to a multiple of 1/SqrtScale
SqrtScale == 100
\* cross-validation is explored for every dataset size 0..MaxCVN
MaxCVN == 9
\* training is explored on the datasets of 0..MaxTrainLen examples
MaxTrainLen == 7
\* predict is given feature sequences of 0..MaxFeatureLen numbers
MaxFeatureLen == 7
\* `mat` is constructed and resized with 0..MaxDim rows and columns, and its
\* cells are addressed with the indices 0..MaxDim
MaxDim == 2
\* at most MaxMutations calls of resize and setElement follow a construction
MaxMutations == 2
\* the Evaluator metrics are given sequences of 0..MaxMetricLen numbers
MaxMetricLen == 2

(***************************************************************************)
(* Rational arithmetic (the model of double).                              *)
(***************************************************************************)
Abs(x) == IF x < 0 THEN -x ELSE x

RECURSIVE GCD(_, _)
GCD(a, b) == IF b = 0 THEN a ELSE GCD(b, a % b)

Norm(n, d) ==
    IF n = 0 THEN <<0, 1>>
    ELSE LET g == GCD(Abs(n), Abs(d))
             s == IF d < 0 THEN -1 ELSE 1
         IN  <<s * (n \div g), s * (d \div g)>>

RInt(k) == <<k, 1>>
Zero == <<0, 1>>
One == <<1, 1>>
\* the double 0.0/0 (not a number) and x/0 for x # 0 (infinity)
NaN == <<0, 0>>
Inf == <<1, 0>>

\* const double EPSILON = 1e-10, as 1 / (EpsRoot * EpsRoot)
EpsRoot == 100000

\* A double of magnitude below EPSILON.  No quotient of 32-bit integers other
\* than 0 is that small, so such a value is held in units of EPSILON:
\* <<n, d, 1>> is (n / d) * 1e-10 with 0 < |n| < d.
Tiny(n, d) == <<n, d, 1>>
IsTiny(x) == Len(x) = 3
\* the quotient in front of the unit
Units(x) == <<x[1], x[2]>>
\* the value of a tiny number as a plain quotient (beyond 32 bits for every d)
Exact(x) == IF IsTiny(x) THEN Norm(x[1], x[2] * EpsRoot * EpsRoot) ELSE x
\* the number p * 1e-10 for a quotient p: tiny when |p| < 1, and a plain
\* quotient otherwise (the factors of 10^10 are cancelled before multiplying)
Scaled(p) ==
    IF p[2] = 0 THEN NaN
    ELSE IF p[1] = 0 THEN Zero
    ELSE IF Abs(p[1]) < p[2] THEN Tiny(p[1], p[2])
    ELSE LET g1 == GCD(Abs(p[1]), EpsRoot)
             n1 == p[1] \div g1
             g2 == GCD(Abs(n1), EpsRoot)
         IN  Norm(n1 \div g2, p[2] * (EpsRoot \div g1) * (EpsRoot \div g2))

\* a value of denominator 0 (NaN, Inf) makes every result NaN
RAdd(x, y) ==
    IF x[2] = 0 \/ y[2] = 0 THEN NaN
    ELSE IF x[1] = 0 THEN y
    ELSE IF y[1] = 0 THEN x
    ELSE IF IsTiny(x) /\ IsTiny(y) THEN Scaled(Norm(x[1] * y[2] + y[1] * x[2], x[2] * y[2]))
    ELSE IF IsTiny(x) \/ IsTiny(y) THEN
        LET a == Exact(x)
            b == Exact(y)
        IN  Norm(a[1] * b[2] + b[1] * a[2], a[2] * b[2])
    ELSE IF x[2] = y[2] THEN Norm(x[1] + y[1], x[2])
    ELSE Norm(x[1] * y[2] + y[1] * x[2], x[2] * y[2])
RNeg(x) == [x EXCEPT ![1] = -x[1]]
RSub(x, y) == RAdd(x, RNeg(y))
\* the product of two plain quotients
QMul(x, y) ==
    LET g1 == GCD(Abs(x[1]), y[2])
        g2 == GCD(Abs(y[1]), x[2])
    IN  <<(x[1] \div g1) * (y[1] \div g2), (x[2] \div g2) * (y[2] \div g1)>>
RMul(x, y) ==
    IF x[2] = 0 \/ y[2] = 0 THEN NaN
    ELSE IF x[1] = 0 \/ y[1] = 0 THEN Zero
    ELSE IF IsTiny(x) /\ IsTiny(y) THEN Scaled(QMul(Units(x), Exact(y)))
    ELSE IF IsTiny(x) \/ IsTiny(y) THEN Scaled(QMul(Units(x), Units(y)))
    ELSE QMul(x, y)
\* x / y; x / 0 is NaN for x = 0 and is infinite otherwise
RDiv(x, y) ==
    IF y[1] = 0 THEN (IF x[1] = 0 \/ x[2] = 0 THEN NaN ELSE Inf)
    ELSE LET z == Exact(y)
         IN  RMul(x, IF z[1] < 0 THEN <<-z[2], -z[1]>> ELSE <<z[2], z[1]>>)
RAbs(x) == [x EXCEPT ![1] = Abs(x[1])]
\* x < y; false when either is NaN.  A plain quotient other than 0 has a
\* magnitude above every tiny number.
RLess(x, y) ==
    /\ x # NaN
    /\ y # NaN
    /\ IF IsTiny(x) = IsTiny(y) THEN x[1] * y[2] < y[1] * x[2]
       ELSE IF IsTiny(x) THEN (IF y[1] = 0 THEN x[1] < 0 ELSE y[1] > 0)
       ELSE (IF x[1] = 0 THEN y[1] > 0 ELSE x[1] < 0)
\* x >= y; false when either is NaN
RGeq(x, y) == x # NaN /\ y # NaN /\ ~RLess(x, y)

\* x / cnt for a count cnt: 0.0/0 is NaN
RDivCount(x, cnt) == RDiv(x, RInt(cnt))

\* the largest r in lo..hi with r * r <= x (bisection)
RECURSIVE ISqrtIn(_, _, _)
ISqrtIn(x, lo, hi) ==
    IF lo >= hi THEN lo
    ELSE LET mid == (lo + hi + 1) \div 2
         IN  IF mid * mid <= x THEN ISqrtIn(x, mid, hi) ELSE ISqrtIn(x, lo, mid - 1)
\* 46340 is the largest integer whose square fits 32 bits
ISqrt(x) == ISqrtIn(x, 0, IF x < 46340 THEN x ELSE 46340)
\* std::sqrt of a rational >= 0, rounded down to a multiple of 1/SqrtScale
\* (a tiny number has a square root below 1e-5)
RSqrt(x) ==
    IF x[2] = 0 THEN x
    ELSE IF IsTiny(x) THEN Zero
    ELSE Norm(ISqrt((x[1] * SqrtScale * SqrtScale) \div x[2]), SqrtScale)

\* std::abs(x) < EPSILON, i.e. |n| * 10^10 < d, computed without leaving 32 bits
BelowEpsilon_Never(x) == FALSE
BelowEpsilon(x) ==
    IF IsTiny(x) THEN Abs(x[1]) < x[2]
    ELSE Abs(x[1]) <= ((x[2] - 1) \div EpsRoot) \div EpsRoot

RECURSIVE SumSeq(_)
SumSeq(s) == IF s = <<>> THEN Zero ELSE RAdd(s[1], SumSeq(Tail(s)))

(***************************************************************************)
(* Matrix: rows, cols and the row-major storage `data`.                    *)
(***************************************************************************)
\* Matrix(rows, cols): zero-filled
MatrixZero(r, c) ==
    [rows |-> r, cols |-> c, data |-> [i \in 1..r |-> [j \in 1..c |-> Zero]]]

isSquare(m) == m.rows = m.cols

\* static Matrix identity(size)
identity(size) ==
    [rows |-> size, cols |-> size,
     data |-> [i \in 1..size |-> [j \in 1..size |-> IF i = j THEN One ELSE Zero]]]

Thrown(kind) == [ok |-> FALSE, err |-> kind]
Returned(v) == [ok |-> TRUE, val |-> v]

\* operator+: throws invalid_argument unless the shapes agree
MatAdd(a, b) ==
    IF a.rows # b.rows \/ a.cols # b.cols THEN Thrown("DimensionMismatch")
    ELSE Returned([rows |-> a.rows, cols |-> a.cols,
                   data |-> [i \in 1..a.rows |-> [j \in 1..a.cols |->
                                RAdd(a.data[i][j], b.data[i][j])]]])

\* operator-: throws invalid_argument unless the shapes agree
MatSub(a, b) ==
    IF a.rows # b.rows \/ a.cols # b.cols THEN Thrown("DimensionMismatch")
    ELSE Returned([rows |-> a.rows, cols |-> a.cols,
                   data |-> [i \in 1..a.rows |-> [j \in 1..a.cols |->
                                RSub(a.data[i][j], b.data[i][j])]]])

\* operator*(const Matrix&): throws invalid_argument unless cols = other.rows
RECURSIVE DotFrom_LastOnly(_, _, _, _, _)
DotFrom_LastOnly(a, b, i, j, k) ==
    IF k > a.cols THEN Zero
    ELSE IF k = a.cols THEN RMul(a.data[i][k], b.data[k][j])
    ELSE DotFrom_LastOnly(a, b, i, j, k + 1)
RECURSIVE DotFrom_StartsAtOne(_, _, _, _, _)
DotFrom_StartsAtOne(a, b, i, j, k) ==
    IF k > a.cols THEN One
    ELSE RAdd(RMul(a.data[i][k], b.data[k][j]), DotFrom_StartsAtOne(a, b, i, j, k + 1))
RECURSIVE DotFrom(_, _, _, _, _)
DotFrom(a, b, i, j, k) ==
    IF k > a.cols THEN Zero
    ELSE RAdd(RMul(a.data[i][k], b.data[k][j]), DotFrom(a, b, i, j, k + 1))

MatMul(a, b) ==
    IF a.cols # b.rows THEN Thrown("DimensionMismatch")
    ELSE Returned([rows |-> a.rows, cols |-> b.cols,
                   data |-> [i \in 1..a.rows |-> [j \in 1..b.cols |->
                                DotFrom(a, b, i, j, 1)]]])

\* operator*(double)
MatScale_Ignored(a, scalar) == a
MatScale(a, scalar) ==
    [rows |-> a.rows, cols |-> a.cols,
     data |-> [i \in 1..a.rows |-> [j \in 1..a.cols |-> RMul(a.data[i][j], scalar)]]]

\* transpose()
transpose_NoSwap(a) == a
transpose(a) ==
    [rows |-> a.cols, cols |-> a.rows,
     data |-> [j \in 1..a.cols |-> [i \in 1..a.rows |-> a.data[i][j]]]]

\* swapRows, multiplyRow, addRowMultiple (row numbers 1-based here)
swapRows(m, r1, r2) ==
    [m EXCEPT !.data = [m.data EXCEPT ![r1] = m.data[r2], ![r2] = m.data[r1]]]
multiplyRow(m, r, factor) ==
    [m EXCEPT !.data[r] = [j \in 1..m.cols |-> RMul(m.data[r][j], factor)]]
addRowMultiple(m, src, tgt, factor) ==
    [m EXCEPT !.data[tgt] =
        [j \in 1..m.cols |-> RAdd(m.data[tgt][j], RMul(factor, m.data[src][j]))]]

\* the pivot search of inverse() and determinant(): the first row of maximal
\* |m(k, i)| among the rows k >= i
RECURSIVE FindPivot_LastMax(_, _, _, _)
FindPivot_LastMax(m, i, k, maxRow) ==
    IF k > m.rows THEN maxRow
    ELSE FindPivot_LastMax(m, i, k + 1,
                           IF RLess(RAbs(m.data[k][i]), RAbs(m.data[maxRow][i]))
                           THEN maxRow ELSE k)
RECURSIVE FindPivot(_, _, _, _)
FindPivot(m, i, k, maxRow) ==
    IF k > m.rows THEN maxRow
    ELSE FindPivot(m, i, k + 1,
                   IF RLess(RAbs(m.data[maxRow][i]), RAbs(m.data[k][i]))
                   THEN k ELSE maxRow)

\* the "eliminate column" loop of inverse(): every row k # i
RECURSIVE EliminateAll_BelowOnly(_, _, _)
EliminateAll_BelowOnly(m, i, k) ==
    IF k > m.rows THEN m
    ELSE IF k <= i THEN EliminateAll_BelowOnly(m, i, k + 1)
    ELSE EliminateAll_BelowOnly(addRowMultiple(m, i, k, RNeg(m.data[k][i])), i, k + 1)
RECURSIVE EliminateAll(_, _, _)
EliminateAll(m, i, k) ==
    IF k > m.rows THEN m
    ELSE IF k = i THEN EliminateAll(m, i, k + 1)
    ELSE EliminateAll(addRowMultiple(m, i, k, RNeg(m.data[k][i])), i, k + 1)

\* one iteration of the pivot loop of inverse() on the augmented matrix
InverseStep(aug, i) ==
    LET maxRow == FindPivot(aug, i, i + 1, i)
    IN  IF BelowEpsilon(aug.data[maxRow][i]) THEN Thrown("Singular")
        ELSE LET swapped == IF maxRow # i THEN swapRows(aug, i, maxRow) ELSE aug
                 pivot == swapped.data[i][i]
                 scaled == multiplyRow(swapped, i, RDiv(One, pivot))
             IN  Returned(EliminateAll(scaled, i, 1))

RECURSIVE InverseLoop(_, _)
InverseLoop(aug, i) ==
    IF i > aug.rows THEN Returned(aug)
    ELSE LET s == InverseStep(aug, i)
         IN  IF s.ok THEN InverseLoop(s.val, i + 1) ELSE s

\* the augmented matrix [A | I]
Augmented(a) ==
    [rows |-> a.rows, cols |-> 2 * a.rows,
     data |-> [i \in 1..a.rows |-> [j \in 1..(2 * a.rows) |->
                 IF j <= a.rows THEN a.data[i][j]
                 ELSE IF j = i + a.rows THEN One ELSE Zero]]]

\* inverse()
inverse(a) ==
    IF ~isSquare(a) THEN Thrown("NotSquare")
    ELSE LET r == InverseLoop(Augmented(a), 1)
         IN  IF ~r.ok THEN r
             ELSE Returned([rows |-> a.rows, cols |-> a.rows,
                            data |-> [i \in 1..a.rows |-> [j \in 1..a.rows |->
                                        r.val.data[i][j + a.rows]]]])

\* Matrix(const Matrix&) and operator=: the three members are copied
MatrixCopy(other) == [rows |-> other.rows, cols |-> other.cols, data |-> other.data]

\* the "eliminate below diagonal" loop of determinant(): the rows k > i
RECURSIVE EliminateBelow(_, _, _)
EliminateBelow(m, i, k) ==
    IF k > m.rows THEN m
    ELSE EliminateBelow(
             addRowMultiple(m, i, k, RNeg(RDiv(m.data[k][i], m.data[i][i]))), i, k + 1)

\* the loop of determinant() from column i on, det being the product so far
RECURSIVE DeterminantLoop_NoSign(_, _, _)
DeterminantLoop_NoSign(temp, i, det) ==
    IF i > temp.rows THEN det
    ELSE LET maxRow == FindPivot(temp, i, i + 1, i)
         IN  IF BelowEpsilon(temp.data[maxRow][i]) THEN Zero
             ELSE LET swapped == IF maxRow # i THEN swapRows(temp, i, maxRow) ELSE temp
                  IN  DeterminantLoop_NoSign(EliminateBelow(swapped, i, i + 1), i + 1,
                                             RMul(det, swapped.data[i][i]))
RECURSIVE DeterminantLoop(_, _, _)
DeterminantLoop(temp, i, det) ==
    IF i > temp.rows THEN det
    ELSE LET maxRow == FindPivot(temp, i, i + 1, i)
         IN  IF BelowEpsilon(temp.data[maxRow][i]) THEN Zero
             ELSE LET swapped == IF maxRow # i THEN swapRows(temp, i, maxRow) ELSE temp
                      signed == IF maxRow # i THEN RMul(det, RInt(-1)) ELSE det
                  IN  DeterminantLoop(EliminateBelow(swapped, i, i + 1), i + 1,
                                      RMul(signed, swapped.data[i][i]))

\* determinant()
determinant(a) ==
    IF ~isSquare(a) THEN Thrown("NotSquare")
    ELSE IF a.rows = 1 THEN Returned(a.data[1][1])
    ELSE IF a.rows = 2
    THEN Returned(RSub(RMul(a.data[1][1], a.data[2][2]), RMul(a.data[1][2], a.data[2][1])))
    ELSE Returned(DeterminantLoop(MatrixCopy(a), 1, One))

\* Matrix(): no rows, no columns
MatrixDefault == [rows |-> 0, cols |-> 0, data |-> <<>>]

\* Matrix(const std::vector<std::vector<double>>&): the rows are copied as they
\* are given, rows is their number and cols the length of the first of them
MatrixFromRows(d) ==
    [rows |-> Len(d), cols |-> IF d = <<>> THEN 0 ELSE Len(d[1]), data |-> d]

\* std::vector::resize(n, 0.0) of a row: truncated, or extended with 0.0
RowResized(row, n) == [j \in 1..n |-> IF j <= Len(row) THEN row[j] ELSE Zero]

\* resize(newRows, newCols): data.resize(rows) keeps the first rows and appends
\* empty ones, then every row is resized to cols
resize(m, newRows, newCols) ==
    [rows |-> newRows, cols |-> newCols,
     data |-> [i \in 1..newRows |->
                 RowResized(IF i <= Len(m.data) THEN m.data[i] ELSE <<>>, newCols)]]

\* data[row][col] exists (row, col count from 0, as in the code)
Stored(m, row, col) == row < Len(m.data) /\ col < Len(m.data[row + 1])

\* what a read outside a vector's storage may yield when it does not trap
Garbage == {Zero, One}

\* operator()(row, col) const: the outcomes of the call.  Past the bounds check,
\* data[row][col] outside the row's storage is undefined: it traps or reads
\* some value
elementAccess_NoColumnCheck(m, row, col) ==
    IF row >= m.rows THEN {Thrown("IndexOutOfRange")}
    ELSE IF Stored(m, row, col) THEN {Returned(m.data[row + 1][col + 1])}
    ELSE {Thrown("trap")} \cup {Returned(g) : g \in Garbage}
elementAccess(m, row, col) ==
    IF row >= m.rows \/ col >= m.cols THEN {Thrown("IndexOutOfRange")}
    ELSE IF Stored(m, row, col) THEN {Returned(m.data[row + 1][col + 1])}
    ELSE {Thrown("trap")} \cup {Returned(g) : g \in Garbage}

\* setElement(row, col, value): the outcomes [out, m] of the call.  A store
\* outside the row's storage is undefined: it traps or lands outside the cells
setElement(m, row, col, value) ==
    IF row >= m.rows \/ col >= m.cols
    THEN {[out |-> Thrown("IndexOutOfRange"), m |-> m]}
    ELSE IF Stored(m, row, col)
    THEN {[out |-> Returned(<<>>), m |-> [m EXCEPT !.data[row + 1][col + 1] = value]]}
    ELSE {[out |-> Thrown("trap"), m |-> m], [out |-> Returned(<<>>), m |-> m]}

(***************************************************************************)
(* DataPoint and Dataset.  A data point is its six integer features and    *)
(* its target prp; a dataset is the sequence `data` of its points.         *)
(***************************************************************************)
DataPoint(myct, mmin, mmax, cach, chmin, chmax, prp) ==
    [f |-> <<myct, mmin, mmax, cach, chmin, chmax>>, prp |-> prp]

\* getFeatureVector(): the six features as doubles, in the fixed order
getFeatureVector(p) == [j \in 1..6 |-> RInt(p.f[j])]
\* getTarget()
getTarget(p) == RInt(p.prp)

(***************************************************************************)
(* LinearRegression.  An instance m is [coefficients, isTrained,           *)
(* trainRMSE]; testRMSE and rSquared are set by the constructor and never  *)
(* written again, and are left out.                                        *)
(***************************************************************************)
\* LinearRegression(): coefficients(6, 0.0), isTrained(false), trainRMSE(0.0)
NewModel ==
    [coefficients |-> [j \in 1..6 |-> Zero], isTrained |-> FALSE, trainRMSE |-> Zero]

\* createDesignMatrix: n x 6, row i the features of example i
createDesignMatrix(data) ==
    [rows |-> Len(data), cols |-> 6,
     data |-> [i \in 1..Len(data) |-> getFeatureVector(data[i])]]

\* createTargetVector, copied into the n x 1 matrix y
createTargetMatrix(data) ==
    [rows |-> Len(data), cols |-> 1,
     data |-> [i \in 1..Len(data) |-> <<getTarget(data[i])>>]]

\* predict(const std::vector<double>&)
predictFeatures_SizeFirst(m, features) ==
    IF Len(features) # 6 THEN Thrown("InvalidFeatureCount")
    ELSE IF ~m.isTrained THEN Thrown("NotTrained")
    ELSE Returned(SumSeq([i \in 1..6 |-> RMul(m.coefficients[i], features[i])]))
predictFeatures(m, features) ==
    IF ~m.isTrained THEN Thrown("NotTrained")
    ELSE IF Len(features) # 6 THEN Thrown("InvalidFeatureCount")
    ELSE Returned(SumSeq([i \in 1..6 |-> RMul(m.coefficients[i], features[i])]))

\* predict(const DataPoint&)
predictPoint(m, point) ==
    IF ~m.isTrained THEN Thrown("NotTrained")
    ELSE predictFeatures(m, getFeatureVector(point))

\* predict(const Dataset&): no check of isTrained of its own; the first
\* predict(testData[i]) that throws ends the loop
predictDataset(m, testData) ==
    LET each == [i \in 1..Len(testData) |-> predictPoint(m, testData[i])]
    IN  IF \E i \in 1..Len(testData) : ~each[i].ok
        THEN each[CHOOSE i \in 1..Len(testData) :
                    ~each[i].ok /\ \A j \in 1..(i - 1) : each[j].ok]
        ELSE Returned([i \in 1..Len(testData) |-> each[i].val])

\* the loop shared by calculateRMSE and calculateMSE: sum of squared errors
SumSquaredErrors(m, testData) ==
    SumSeq([i \in 1..Len(testData) |->
              LET error == RSub(predictPoint(m, testData[i]).val, getTarget(testData[i]))
              IN  RMul(error, error)])

\* calculateRMSE
calculateRMSE(m, testData) ==
    IF ~m.isTrained THEN Thrown("NotTrained")
    ELSE Returned(RSqrt(RDivCount(SumSquaredErrors(m, testData), Len(testData))))

\* calculateMSE
calculateMSE(m, testData) ==
    IF ~m.isTrained THEN Thrown("NotTrained")
    ELSE Returned(RDivCount(SumSquaredErrors(m, testData), Len(testData)))

\* calculateMAE
calculateMAE(m, testData) ==
    IF ~m.isTrained THEN Thrown("NotTrained")
    ELSE Returned(RDivCount(
            SumSeq([i \in 1..Len(testData) |->
                      RAbs(RSub(predictPoint(m, testData[i]).val, getTarget(testData[i])))]),
            Len(testData)))

\* calculateRSquared
calculateRSquared(m, testData) ==
    IF ~m.isTrained THEN Thrown("NotTrained")
    ELSE LET n == Len(testData)
             meanActual == RDivCount(SumSeq([i \in 1..n |-> getTarget(testData[i])]), n)
             totalSumSquares ==
                 SumSeq([i \in 1..n |->
                           LET dv == RSub(getTarget(testData[i]), meanActual)
                           IN  RMul(dv, dv)])
             residualSumSquares ==
                 SumSeq([i \in 1..n |->
                           LET dv == RSub(getTarget(testData[i]),
                                          predictPoint(m, testData[i]).val)
                           IN  RMul(dv, dv)])
         IN  IF totalSumSquares = Zero THEN Returned(One)
             ELSE Returned(RSub(One, RDiv(residualSumSquares, totalSumSquares)))

(***************************************************************************)
(* Evaluator: the static metrics and evaluate.                             *)
(***************************************************************************)
\* Evaluator::calculateMAPE
calculateMAPE_CountsAll(act, pred) ==
    IF Len(act) # Len(pred) \/ act = <<>> THEN Thrown("InvalidArgument")
    ELSE LET valid == SelectSeq([i \in 1..Len(act) |-> i], LAMBDA i : act[i] # Zero)
             sumPercentageError ==
                 SumSeq([k \in 1..Len(valid) |->
                           RMul(RAbs(RDiv(RSub(act[valid[k]], pred[valid[k]]),
                                          act[valid[k]])),
                                RInt(100))])
         IN  Returned(RDivCount(sumPercentageError, Len(act)))
calculateMAPE(act, pred) ==
    IF Len(act) # Len(pred) \/ act = <<>> THEN Thrown("InvalidArgument")
    ELSE LET valid == SelectSeq([i \in 1..Len(act) |-> i], LAMBDA i : act[i] # Zero)
             sumPercentageError ==
                 SumSeq([k \in 1..Len(valid) |->
                           RMul(RAbs(RDiv(RSub(act[valid[k]], pred[valid[k]]),
                                          act[valid[k]])),
                                RInt(100))])
             validCount == Len(valid)
         IN  IF validCount > 0 THEN Returned(RDivCount(sumPercentageError, validCount))
             ELSE Returned(Zero)

\* Evaluator::calculateR2
calculateR2_NoZeroCase(act, pred) ==
    IF Len(act) # Len(pred) \/ act = <<>> THEN Thrown("InvalidArgument")
    ELSE LET n == Len(act)
             meanActual == RDivCount(SumSeq(act), n)
             totalSumSquares ==
                 SumSeq([i \in 1..n |-> RMul(RSub(act[i], meanActual),
                                             RSub(act[i], meanActual))])
             residualSumSquares ==
                 SumSeq([i \in 1..n |-> RMul(RSub(act[i], pred[i]),
                                             RSub(act[i], pred[i]))])
         IN  Returned(RSub(One, RDiv(residualSumSquares, totalSumSquares)))
calculateR2(act, pred) ==
    IF Len(act) # Len(pred) \/ act = <<>> THEN Thrown("InvalidArgument")
    ELSE LET n == Len(act)
             meanActual == RDivCount(SumSeq(act), n)
             totalSumSquares ==
                 SumSeq([i \in 1..n |-> RMul(RSub(act[i], meanActual),
                                             RSub(act[i], meanActual))])
             residualSumSquares ==
                 SumSeq([i \in 1..n |-> RMul(RSub(act[i], pred[i]),
                                             RSub(act[i], pred[i]))])
         IN  IF totalSumSquares = Zero THEN Returned(One)
             ELSE Returned(RSub(One, RDiv(residualSumSquares, totalSumSquares)))

\* Evaluator::calculateResiduals
calculateResiduals_Swapped(act, pred) ==
    IF Len(act) # Len(pred) THEN Thrown("InvalidArgument")
    ELSE Returned([i \in 1..Len(act) |-> RSub(pred[i], act[i])])
calculateResiduals(act, pred) ==
    IF Len(act) # Len(pred) THEN Thrown("InvalidArgument")
    ELSE Returned([i \in 1..Len(act) |-> RSub(act[i], pred[i])])

\* Evaluator::evaluate on the Evaluator of model m: the first call that throws
\* ends it
evaluate(m, testData) ==
    IF ~m.isTrained THEN Thrown("NotTrained")
    ELSE LET predictions == predictDataset(m, testData)
             actuals == [i \in 1..Len(testData) |-> getTarget(testData[i])]
             residuals == calculateResiduals(actuals, predictions.val)
             rmse == calculateRMSE(m, testData)
             mse == calculateMSE(m, testData)
             mae == calculateMAE(m, testData)
             rSquared == calculateRSquared(m, testData)
             mape == calculateMAPE(actuals, predictions.val)
         IN  IF ~predictions.ok THEN predictions
             ELSE IF ~residuals.ok THEN residuals
             ELSE IF ~rmse.ok THEN rmse
             ELSE IF ~mse.ok THEN mse
             ELSE IF ~mae.ok THEN mae
             ELSE IF ~rSquared.ok THEN rSquared
             ELSE IF ~mape.ok THEN mape
             ELSE Returned([rmse |-> rmse.val, mse |-> mse.val, mae |-> mae.val,
                            rSquared |-> rSquared.val,
                            meanAbsolutePercentageError |-> mape.val,
                            predictions |-> predictions.val, actuals |-> actuals,
                            residuals |-> residuals.val])

\* the body of the try block of train: theta = (X^T X)^(-1) X^T y
NormalEquation_NoInverse(trainData) ==
    LET X == createDesignMatrix(trainData)
        y == createTargetMatrix(trainData)
        Xt == transpose(X)
        XtX == MatMul(Xt, X).val
    IN  MatMul(XtX, MatMul(Xt, y).val)
NormalEquation(trainData) ==
    LET X == createDesignMatrix(trainData)
        y == createTargetMatrix(trainData)
        Xt == transpose(X)
        XtX == MatMul(Xt, X).val
        XtX_inv == inverse(XtX)
    IN  IF ~XtX_inv.ok THEN XtX_inv
        ELSE MatMul(XtX_inv.val, MatMul(Xt, y).val)

\* the body of the try block of trainWithRegularization:
\* theta = (X^T X + lambda I)^(-1) X^T y
RidgeEquation_NoLambda(trainData, lambda) ==
    LET X == createDesignMatrix(trainData)
        y == createTargetMatrix(trainData)
        Xt == transpose(X)
        XtX == MatMul(Xt, X).val
        regularized_inv == inverse(XtX)
    IN  IF ~regularized_inv.ok THEN regularized_inv
        ELSE MatMul(regularized_inv.val, MatMul(Xt, y).val)
RidgeEquation(trainData, lambda) ==
    LET X == createDesignMatrix(trainData)
        y == createTargetMatrix(trainData)
        Xt == transpose(X)
        XtX == MatMul(Xt, X).val
        I == identity(XtX.rows)
        regularized == MatAdd(XtX, MatScale(I, lambda)).val
        regularized_inv == inverse(regularized)
    IN  IF ~regularized_inv.ok THEN regularized_inv
        ELSE MatMul(regularized_inv.val, MatMul(Xt, y).val)

(***************************************************************************)
(* crossValidate: its pure parts.                                          *)
(***************************************************************************)
\* data.size() < static_cast<size_t>(folds): a negative folds converts to a
\* size_t above every size
TooManyFolds_OffByOne(n, k) == IF k < 0 THEN TRUE ELSE n <= k
TooManyFolds(n, k) == IF k < 0 THEN TRUE ELSE n < k

\* size_t foldSize = data.size() / folds, for folds # 0
FoldSizeOf_Ceiling(n, k) == (n + k - 1) \div k
FoldSizeOf(n, k) == n \div k

\* the first condition of the inner loop: i is in fold f, not the last fold
InFold_Inclusive(i, f, k, size) == i >= f * size /\ i <= (f + 1) * size /\ f < k - 1
InFold(i, f, k, size) == i >= f * size /\ i < (f + 1) * size /\ f < k - 1

\* its second condition: f is the last fold and i is at or after its start
InLastFold_AfterStart(i, f, k, size) == f = k - 1 /\ i > f * size
InLastFold(i, f, k, size) == f = k - 1 /\ i >= f * size

\* the inner loop from index i on: the indices put in validSet and in trainSet,
\* in the order of addDataPoint
RECURSIVE FoldSets_NoElse(_, _, _, _, _, _)
FoldSets_NoElse(i, n, f, k, size, acc) ==
    IF i >= n THEN acc
    ELSE LET a == IF InFold(i, f, k, size)
                  THEN [acc EXCEPT !.valid = Append(@, i)] ELSE acc
             b == IF InLastFold(i, f, k, size)
                  THEN [a EXCEPT !.valid = Append(@, i)]
                  ELSE [a EXCEPT !.train = Append(@, i)]
         IN  FoldSets_NoElse(i + 1, n, f, k, size, b)

RECURSIVE FoldSets(_, _, _, _, _, _)
FoldSets(i, n, f, k, size, acc) ==
    IF i >= n THEN acc
    ELSE IF InFold(i, f, k, size)
         THEN FoldSets(i + 1, n, f, k, size, [acc EXCEPT !.valid = Append(@, i)])
    ELSE IF InLastFold(i, f, k, size)
         THEN FoldSets(i + 1, n, f, k, size, [acc EXCEPT !.valid = Append(@, i)])
    ELSE FoldSets(i + 1, n, f, k, size, [acc EXCEPT !.train = Append(@, i)])

\* if (tempModel.train(trainSet)) foldRMSEs.push_back(foldRMSE)
RecordFold_ZeroOnFailure(rmses, trained, foldRMSE) ==
    IF trained THEN Append(rmses, foldRMSE.val) ELSE Append(rmses, Zero)
RecordFold(rmses, trained, foldRMSE) ==
    IF trained THEN Append(rmses, foldRMSE.val) ELSE rmses

\* the dataset of the examples data[i], i in idx
Pick(data, idx) == [j \in 1..Len(idx) |-> data[idx[j] + 1]]

\* the end of crossValidate: -1.0 when foldRMSEs is empty, else
\* std::accumulate(...) / foldRMSEs.size()
AverageRMSE(rmses) ==
    IF rmses = <<>> THEN RInt(-1) ELSE RDiv(SumSeq(rmses), RInt(Len(rmses)))

(***************************************************************************)
(* The datasets the operations are applied to: windows of a cyclic         *)
(* sequence of examples.                                                   *)
(***************************************************************************)
BasePoints ==
    << DataPoint(1, 0, 0, 0, 0, 0, 2), DataPoint(0, 1, 0, 0, 0, 0, 3),
       DataPoint(0, 0, 1, 0, 0, 0, 1), DataPoint(0, 0, 0, 1, 0, 0, 4),
       DataPoint(0, 0, 0, 0, 1, 0, 2), DataPoint(0, 0, 0, 0, 0, 1, 5),
       DataPoint(1, 1, 0, 0, 0, 0, 6), DataPoint(0, 0, 1, 0, 0, 1, 6) >>

\* the n examples that follow the first `start` ones, cyclically
Window(start, n) ==
    [i \in 1..n |-> BasePoints[((start + i - 1) % Len(BasePoints)) + 1]]

\* four examples of target = 2 * myct + 3 * mmin, the other features being 0
TwoFeatureExamples ==
    << DataPoint(1, 0, 0, 0, 0, 0, 2), DataPoint(0, 1, 0, 0, 0, 0, 3),
       DataPoint(1, 1, 0, 0, 0, 0, 5), DataPoint(2, 1, 0, 0, 0, 0, 7) >>

\* the datasets given to train, trainWithRegularization and predict
TrainDatasets ==
    {Window(0, n) : n \in 0..MaxTrainLen} \cup {Window(2, n) : n \in {6, 7}}
        \cup {TwoFeatureExamples}
\* the datasets given to the scoring operations
TestDatasets == {Window(0, 0), Window(0, 3), Window(5, 4)}
\* the datasets given to calculateRSquared and to evaluate: those, and one and
\* two examples of target 6
EvaluationDatasets == TestDatasets \cup {Window(6, 1), Window(6, 2)}
\* the regularization parameters given to trainWithRegularization
Lambdas == {Zero, One}
\* the (start, n, folds) of the calls of crossValidate(Window(start, n), folds):
\* every size up to MaxCVN with every fold count -1..n+1, and the two calls
\* of 5 folds on 25 and on 23 examples
CVInputs ==
    {c \in {0, 3} \X (0..MaxCVN) \X (-1..(MaxCVN + 1)) : c[3] <= c[2] + 1}
        \cup {<<0, 25, 5>>, <<0, 23, 5>>}
\* the feature sequences given to predict
FeatureSeqs ==
    {[i \in 1..len |-> RInt((i * p) % 3)] : len \in 0..MaxFeatureLen, p \in {1, 2}}

\* NormalEquation and RidgeEquation of the datasets above, evaluated once each
NormalTheta == [d \in TrainDatasets |-> NormalEquation(d)]
RidgeTheta == [d \in TrainDatasets, lambda \in Lambdas |-> RidgeEquation(d, lambda)]
SolveNormal(trainData) ==
    IF trainData \in TrainDatasets THEN NormalTheta[trainData]
    ELSE NormalEquation(trainData)
SolveRidge(trainData, lambda) ==
    IF trainData \in TrainDatasets /\ lambda \in Lambdas THEN RidgeTheta[trainData, lambda]
    ELSE RidgeEquation(trainData, lambda)

\* what train and trainWithRegularization do with theta: [ret, m, err]
FinishTraining_ResetsOnFailure(m, trainData, theta) ==
    IF ~theta.ok THEN [ret |-> FALSE, m |-> NewModel, err |-> theta.err]
    ELSE [ret |-> TRUE,
          m |-> [m EXCEPT !.coefficients = [i \in 1..6 |-> theta.val.data[i][1]],
                          !.isTrained = TRUE],
          err |-> "none"]
FinishTraining(m, trainData, theta) ==
    IF ~theta.ok THEN [ret |-> FALSE, m |-> m, err |-> theta.err]
    ELSE LET fitted == [m EXCEPT !.coefficients = [i \in 1..6 |-> theta.val.data[i][1]],
                                 !.isTrained = TRUE]
             rmse == calculateRMSE(fitted, trainData)
         IN  IF rmse.ok
             THEN [ret |-> TRUE, m |-> [fitted EXCEPT !.trainRMSE = rmse.val], err |-> "none"]
             ELSE [ret |-> FALSE, m |-> fitted, err |-> rmse.err]

\* train
train_NoEmptyCheck(m, trainData) ==
    FinishTraining(m, trainData, SolveNormal(trainData))
train(m, trainData) ==
    IF trainData = <<>> THEN [ret |-> FALSE, m |-> m, err |-> "EmptyInput"]
    ELSE FinishTraining(m, trainData, SolveNormal(trainData))

\* trainWithRegularization
trainWithRegularization(m, trainData, lambda) ==
    IF trainData = <<>> THEN [ret |-> FALSE, m |-> m, err |-> "EmptyInput"]
    ELSE FinishTraining(m, trainData, SolveRidge(trainData, lambda))

(***************************************************************************)
(* State.                                                                  *)
(***************************************************************************)
VARIABLES
    coefficients,   \* the instance `model`: std::vector<double> coefficients
    isTrained,      \* the instance `model`: bool isTrained
    trainRMSE,      \* the instance `model`: double trainRMSE
    everTrained,    \* history: some train/trainWithRegularization returned true
    call,           \* the last call on `model`: [op, arg, lambda, out]
    cvPc,           \* crossValidate: "idle", "loop", "done", "threw", "crashed"
    cvData,         \* crossValidate: the argument data
    folds,          \* crossValidate: the argument folds
    foldSize,       \* crossValidate: size_t foldSize
    fold,           \* crossValidate: the loop variable fold
    trainIdx,       \* the indices i whose data[i] the last iteration put in trainSet
    validIdx,       \* the indices i whose data[i] the last iteration put in validSet
    foldRMSEs,      \* crossValidate: std::vector<double> foldRMSEs
    foldLog,        \* history: per iteration done, [valid, train, trained]
    cvResult,       \* crossValidate: what the call returned
    mat,            \* a Matrix object: [rows, cols, data]
    mcall,          \* the last call on `mat`: [op, args, out]
    nmut,           \* the number of resize and setElement calls on `mat` so far
    actual,         \* Evaluator metrics: the argument actual
    predicted,      \* Evaluator metrics: the argument predicted
    elimOp,         \* the call in progress on `mat`: "none", "inverse", "determinant"
    elimPc,         \* its position: "idle", "pivot", "eliminate", "done", "threw"
    work,           \* inverse: Matrix augmented; determinant: Matrix temp
    pivotCol,       \* the loop variable i of the pivot loop
    maxRow,         \* size_t maxRow of the last pivot search
    det,            \* determinant: double det
    elimResult,     \* what the call returned or threw
    menuPc,         \* main: "menu" (in the loop), "exited", "aborted"
    dataLoaded,     \* main: bool dataLoaded
    modelTrained,   \* main: bool modelTrained
    fullDataset,    \* main: Dataset fullDataset
    trainDataset,   \* main: Dataset trainDataset
    testDataset,    \* main: Dataset testDataset
    everLoaded,     \* history: some loadFromFile returned true
    menuLast        \* history: the last option taken, and whether it got past
                    \* its guard to the model or the evaluator

instVars == <<coefficients, isTrained, trainRMSE, everTrained>>
cvVars == <<cvPc, cvData, folds, foldSize, fold, trainIdx, validIdx, foldRMSEs,
            foldLog, cvResult>>
matVars == <<mat, mcall, nmut>>
evalVars == <<actual, predicted>>
elimVars == <<elimOp, elimPc, work, pivotCol, maxRow, det, elimResult>>
menuVars == <<menuPc, dataLoaded, modelTrained, fullDataset, trainDataset, testDataset,
              everLoaded, menuLast>>
appVars == <<evalVars, elimVars, menuVars>>
vars == <<coefficients, isTrained, trainRMSE, everTrained, call, cvPc, cvData, folds,
          foldSize, fold, trainIdx, validIdx, foldRMSEs, foldLog, cvResult,
          mat, mcall, nmut, actual, predicted,
          elimOp, elimPc, work, pivotCol, maxRow, det, elimResult,
          menuPc, dataLoaded, modelTrained, fullDataset, trainDataset, testDataset,
          everLoaded, menuLast>>

\* the instance `model` as a value
Self == [coefficients |-> coefficients, isTrained |-> isTrained, trainRMSE |-> trainRMSE]

NoCall == [op |-> "none", arg |-> <<>>, lambda |-> Zero, out |-> Returned(<<>>)]

InitInstance ==
    /\ coefficients = NewModel.coefficients
    /\ isTrained = NewModel.isTrained
    /\ trainRMSE = NewModel.trainRMSE
    /\ everTrained = FALSE
    /\ call = NoCall

InitCV ==
    /\ cvPc = "idle"
    /\ cvData = <<>>
    /\ folds = 0
    /\ foldSize = 0
    /\ fold = 0
    /\ trainIdx = <<>>
    /\ validIdx = <<>>
    /\ foldRMSEs = <<>>
    /\ foldLog = <<>>
    /\ cvResult = [kind |-> "none", val |-> Zero]

NoMatrixCall == [op |-> "none", args |-> <<>>, out |-> Returned(<<>>)]

\* `mat` is default-constructed
InitMatrix ==
    /\ mat = MatrixDefault
    /\ mcall = NoMatrixCall
    /\ nmut = 0

\* no metric has been given arguments
InitEvaluator ==
    /\ actual = <<>>
    /\ predicted = <<>>

\* neither inverse() nor determinant() is in progress
InitElimination ==
    /\ elimOp = "none"
    /\ elimPc = "idle"
    /\ work = MatrixDefault
    /\ pivotCol = 0
    /\ maxRow = 0
    /\ det = One
    /\ elimResult = Returned(<<>>)

\* main before its loop: nothing loaded, nothing trained
InitMenu ==
    /\ menuPc = "menu"
    /\ dataLoaded = FALSE
    /\ modelTrained = FALSE
    /\ fullDataset = <<>>
    /\ trainDataset = <<>>
    /\ testDataset = <<>>
    /\ everLoaded = FALSE
    /\ menuLast = [option |-> -1, invoked |-> FALSE]

InitApp == InitEvaluator /\ InitElimination /\ InitMenu

Init == InitInstance /\ InitCV /\ InitMatrix /\ InitApp

(***************************************************************************)
(* The operations on the instance `model`.                                 *)
(***************************************************************************)
\* a training call stores the instance it leaves and records what it returned
Trained(op, d, lambda, r) ==
    /\ coefficients' = r.m.coefficients
    /\ isTrained' = r.m.isTrained
    /\ trainRMSE' = r.m.trainRMSE
    /\ everTrained' = (everTrained \/ r.ret)
    /\ call' = [op |-> op, arg |-> d, lambda |-> lambda,
                out |-> [ret |-> r.ret, err |-> r.err]]
    /\ UNCHANGED cvVars
    /\ UNCHANGED matVars
    /\ UNCHANGED appVars

\* a const member function leaves the instance alone and records its outcome
Queried(op, arg, out) ==
    /\ call' = [op |-> op, arg |-> arg, lambda |-> Zero, out |-> out]
    /\ UNCHANGED instVars
    /\ UNCHANGED cvVars
    /\ UNCHANGED matVars
    /\ UNCHANGED appVars

Train ==
    \E d \in TrainDatasets : Trained("train", d, Zero, train(Self, d))

TrainWithRegularization ==
    \E d \in TrainDatasets, lambda \in Lambdas :
        Trained("trainWithRegularization", d, lambda,
                trainWithRegularization(Self, d, lambda))

PredictFeatures ==
    \E features \in FeatureSeqs :
        Queried("predictFeatures", features, predictFeatures(Self, features))

PredictPoint ==
    \E i \in 1..Len(BasePoints) :
        Queried("predictPoint", BasePoints[i], predictPoint(Self, BasePoints[i]))

PredictDataset ==
    \E d \in TestDatasets : Queried("predictDataset", d, predictDataset(Self, d))

CalculateRMSE ==
    \E d \in TestDatasets : Queried("calculateRMSE", d, calculateRMSE(Self, d))

CalculateMSE ==
    \E d \in TestDatasets : Queried("calculateMSE", d, calculateMSE(Self, d))

CalculateMAE ==
    \E d \in TestDatasets : Queried("calculateMAE", d, calculateMAE(Self, d))

CalculateRSquared ==
    \E d \in EvaluationDatasets :
        Queried("calculateRSquared", d, calculateRSquared(Self, d))

(***************************************************************************)
(* The Evaluator of `model`, a new or a trained model.  Its static metrics *)
(* are applied to the pair of sequences <<actual, predicted>>, and         *)
(* evaluate to a test set.                                                 *)
(***************************************************************************)
SeqsUpTo(S, n) == UNION {[1..k -> S] : k \in 0..n}
\* the sequences given to the metrics as actual and as predicted values
MetricActuals == SeqsUpTo({Zero, RInt(2)}, MaxMetricLen)
MetricPredictions == SeqsUpTo({Zero, RInt(2), RInt(3)}, MaxMetricLen)

\* the pairs given to the metrics: of one length, or predicted longer by one
MetricInputs ==
    {q \in MetricActuals \X MetricPredictions :
        Len(q[2]) \in {Len(q[1]), Len(q[1]) + 1}}
\* the models an Evaluator is made for: a new one, and one trained on the first
\* six examples
EvaluatorModels == {NewModel, train(NewModel, Window(0, 6)).m}

InitMetrics ==
    /\ \E m \in EvaluatorModels :
        /\ coefficients = m.coefficients
        /\ isTrained = m.isTrained
        /\ trainRMSE = m.trainRMSE
        /\ everTrained = m.isTrained
    /\ call = NoCall
    /\ InitCV
    /\ InitMatrix
    /\ InitElimination
    /\ InitMenu
    /\ \E q \in MetricInputs :
        /\ actual = q[1]
        /\ predicted = q[2]

\* a static member function of Evaluator applied to <<actual, predicted>>
Measured(op, out) == Queried(op, <<actual, predicted>>, out)

CalculateMAPE == Measured("calculateMAPE", calculateMAPE(actual, predicted))

CalculateR2 == Measured("calculateR2", calculateR2(actual, predicted))

CalculateResiduals == Measured("calculateResiduals", calculateResiduals(actual, predicted))

Evaluate ==
    \E d \in EvaluationDatasets : Queried("evaluate", d, evaluate(Self, d))

NextEvaluator ==
    \/ CalculateRSquared
    \/ Evaluate
    \/ CalculateMAPE
    \/ CalculateR2
    \/ CalculateResiduals

SpecEvaluator == InitMetrics /\ [][NextEvaluator]_vars

(***************************************************************************)
(* One call crossValidate(data, folds) on `model`, one step per iteration  *)
(* of its outer loop.  The call is const and keeps nothing from an        *)
(* earlier call: every local starts afresh.                               *)
(***************************************************************************)
CVEnter(d, k) ==
    /\ cvData' = d
    /\ folds' = k
    /\ fold' = 0
    /\ trainIdx' = <<>>
    /\ validIdx' = <<>>
    /\ foldRMSEs' = <<>>
    /\ foldLog' = <<>>
    /\ UNCHANGED <<instVars, call, matVars, appVars>>

CVCall ==
    /\ cvPc = "idle"
    /\ \E c \in CVInputs :
        LET d == Window(c[1], c[2])
            k == c[3]
        IN  /\ CVEnter(d, k)
            /\ \/ /\ TooManyFolds(Len(d), k)
                  /\ cvPc' = "threw"
                  /\ foldSize' = 0
                  /\ cvResult' = [kind |-> "invalid_argument", val |-> Zero]
               \/ /\ ~TooManyFolds(Len(d), k)
                  /\ k # 0
                  /\ cvPc' = "loop"
                  /\ foldSize' = FoldSizeOf(Len(d), k)
                  /\ cvResult' = [kind |-> "none", val |-> Zero]
               \* folds = 0: data.size() / 0 is undefined; the division traps ...
               \/ /\ ~TooManyFolds(Len(d), k)
                  /\ k = 0
                  /\ cvPc' = "crashed"
                  /\ foldSize' = 0
                  /\ cvResult' = [kind |-> "trap", val |-> Zero]
               \* ... or yields some quotient and the call goes on
               \/ /\ ~TooManyFolds(Len(d), k)
                  /\ k = 0
                  /\ cvPc' = "loop"
                  /\ foldSize' \in 0..Len(d)
                  /\ cvResult' = [kind |-> "none", val |-> Zero]

CVFold ==
    /\ cvPc = "loop"
    /\ fold < folds
    /\ \E sets \in {FoldSets(0, Len(cvData), fold, folds, foldSize,
                              [valid |-> <<>>, train |-> <<>>])} :
       \E tempModel \in {train(NewModel, Pick(cvData, sets.train))} :
       \E foldRMSE \in {calculateRMSE(tempModel.m, Pick(cvData, sets.valid))} :
           /\ validIdx' = sets.valid
           /\ trainIdx' = sets.train
           /\ foldLog' = Append(foldLog, [valid |-> sets.valid, train |-> sets.train,
                                          trained |-> tempModel.ret])
           \* calculateRMSE throws only on an untrained model; crossValidate
           \* has no handler for it
           /\ IF tempModel.ret /\ ~foldRMSE.ok
              THEN /\ cvPc' = "threw"
                   /\ cvResult' = [kind |-> foldRMSE.err, val |-> Zero]
                   /\ UNCHANGED <<foldRMSEs, fold>>
              ELSE /\ foldRMSEs' = RecordFold(foldRMSEs, tempModel.ret, foldRMSE)
                   /\ fold' = fold + 1
                   /\ UNCHANGED <<cvPc, cvResult>>
    /\ UNCHANGED <<instVars, call, cvData, folds, foldSize, matVars, appVars>>

CVReturn ==
    /\ cvPc = "loop"
    /\ fold >= folds
    /\ cvPc' = "done"
    /\ cvResult' = [kind |-> "value", val |-> AverageRMSE(foldRMSEs)]
    /\ UNCHANGED <<instVars, call, cvData, folds, foldSize, fold, trainIdx, validIdx,
                   foldRMSEs, foldLog, matVars, appVars>>

NextCV == CVCall \/ CVFold \/ CVReturn

SpecCV == Init /\ [][NextCV]_vars

Next ==
    \/ Train
    \/ TrainWithRegularization
    \/ PredictFeatures
    \/ PredictPoint
    \/ PredictDataset
    \/ CalculateRMSE
    \/ CalculateMSE
    \/ CalculateMAE
    \/ CalculateRSquared

Spec == Init /\ [][Next]_vars

(***************************************************************************)
(* The Matrix object `mat`: construction, copy, resize, element access.   *)
(***************************************************************************)
\* a nested sequence of rows of integers, as doubles
Rows(q) == [i \in 1..Len(q) |-> [j \in 1..Len(q[i]) |-> RInt(q[i][j])]]

\* the nested sequences given to Matrix(const std::vector<std::vector<double>>&)
NestedInputs ==
    { Rows(<<>>), Rows(<< <<>> >>), Rows(<< <<5, 6>> >>),
      Rows(<< <<1, 2>>, <<3, 4>> >>), Rows(<< <<1, 2>>, <<3>> >>),
      Rows(<< <<1>>, <<3, 4>> >>) }
\* the values given to setElement
CellValues == {RInt(7)}

MatrixCalled(op, args, out) == mcall' = [op |-> op, args |-> args, out |-> out]

Construct ==
    \E r \in 0..MaxDim, c \in 0..MaxDim :
        /\ mat' = MatrixZero(r, c)
        /\ MatrixCalled("Matrix", <<r, c>>, Returned(<<>>))
        /\ nmut' = 0
        /\ UNCHANGED <<instVars, call, cvVars, appVars>>

ConstructFromRows ==
    \E d \in NestedInputs :
        /\ mat' = MatrixFromRows(d)
        /\ MatrixCalled("MatrixFromRows", <<d>>, Returned(<<>>))
        /\ nmut' = 0
        /\ UNCHANGED <<instVars, call, cvVars, appVars>>

\* `mat` becomes a copy of itself (copy construction, then assignment back)
Copy ==
    /\ mat' = MatrixCopy(mat)
    /\ MatrixCalled("copy", <<>>, Returned(<<>>))
    /\ UNCHANGED <<nmut, instVars, call, cvVars, appVars>>

Resize ==
    /\ nmut < MaxMutations
    /\ \E r \in 0..MaxDim, c \in 0..MaxDim :
        /\ mat' = resize(mat, r, c)
        /\ MatrixCalled("resize", <<r, c>>, Returned(<<>>))
    /\ nmut' = nmut + 1
    /\ UNCHANGED <<instVars, call, cvVars, appVars>>

SetElement ==
    /\ nmut < MaxMutations
    /\ \E row \in 0..MaxDim, col \in 0..MaxDim, value \in CellValues :
        \E o \in setElement(mat, row, col, value) :
            /\ mat' = o.m
            /\ MatrixCalled("setElement", <<row, col, value>>, o.out)
    /\ nmut' = nmut + 1
    /\ UNCHANGED <<instVars, call, cvVars, appVars>>

ElementAccess ==
    /\ \E row \in 0..MaxDim, col \in 0..MaxDim :
        \E o \in elementAccess(mat, row, col) :
            MatrixCalled("elementAccess", <<row, col>>, o)
    /\ UNCHANGED <<mat, nmut, instVars, call, cvVars, appVars>>

NextMatrix ==
    \/ Construct
    \/ ConstructFromRows
    \/ Copy
    \/ Resize
    \/ SetElement
    \/ ElementAccess

SpecMatrix == Init /\ [][NextMatrix]_vars

(***************************************************************************)
(* The const operations of Matrix, applied to matrices whose rows all have *)
(* `cols` elements.                                                        *)
(***************************************************************************)
MatrixInputs ==
    { MatrixFromRows(Rows(q)) : q \in
        { <<>>, << <<3>> >>, << <<0>> >>, << <<1, 2>> >>, << <<2>>, <<1>> >>,
          << <<1, 2>>, <<3, 4>> >>, << <<1, 2>>, <<2, 4>> >>, << <<0, 1>>, <<1, 0>> >>,
          << <<1, 2, 3>>, <<4, 5, 6>> >>, << <<1, 0>>, <<0, 1>>, <<2, 3>> >>,
          << <<0, 2, 1>>, <<1, 1, 0>>, <<3, 0, 1>> >>,
          << <<0, 1, 0>>, <<1, 0, 0>>, <<0, 0, 1>> >>,
          << <<1, 2, 3>>, <<4, 5, 6>>, <<7, 8, 9>> >>,
          << <<2, 1, 0>>, <<1, 2, 1>>, <<0, 1, 2>> >> } }
        \cup { MatScale(MatrixFromRows(Rows(<< <<1, 2>>, <<3, 5>> >>)), <<1, 2>>),
               MatrixZero(0, 2), MatrixZero(1, 0) }

InitAlgebra ==
    /\ InitInstance
    /\ InitCV
    /\ mat \in MatrixInputs
    /\ mcall = NoMatrixCall
    /\ nmut = 0
    /\ InitApp

\* a const member function leaves `mat` alone and records its outcome
MatrixQueried(op, args, out) ==
    /\ MatrixCalled(op, args, out)
    /\ UNCHANGED <<mat, nmut, instVars, call, cvVars, appVars>>

Add == \E other \in MatrixInputs : MatrixQueried("add", <<other>>, MatAdd(mat, other))

Subtract == \E other \in MatrixInputs : MatrixQueried("subtract", <<other>>, MatSub(mat, other))

Multiply == \E other \in MatrixInputs : MatrixQueried("multiply", <<other>>, MatMul(mat, other))

Transpose == MatrixQueried("transpose", <<>>, Returned(transpose(mat)))

Inverse == MatrixQueried("inverse", <<>>, inverse(mat))

Determinant == MatrixQueried("determinant", <<>>, determinant(mat))

NextAlgebra ==
    \/ Add
    \/ Subtract
    \/ Multiply
    \/ Transpose
    \/ Inverse
    \/ Determinant

SpecAlgebra == InitAlgebra /\ [][NextAlgebra]_vars

(***************************************************************************)
(* The pivot tolerance.  `mat` is one of MatrixInputs or a matrix with an  *)
(* entry of magnitude below 1e-10, and is inverted, has its determinant    *)
(* taken, is transposed and has its cells read.                            *)
(***************************************************************************)
\* 1e-11
Small == Tiny(1, 10)
\* 2e9
Large == RInt(2000000000)
ToleranceInputs ==
    { MatrixFromRows(d) : d \in
        { << <<Small>> >>, << <<RNeg(Small)>> >>,
          << <<Small, Zero>>, <<Zero, One>> >>,
          << <<Small, Zero>>, <<Zero, Large>> >>,
          << <<One, Zero>>, <<Zero, Small>> >>,
          << <<Zero, Small>>, <<One, Zero>> >>,
          << <<One, Small>>, <<Zero, One>> >>,
          << <<Small, Zero, Zero>>, <<Zero, One, Zero>>, <<Zero, Zero, One>> >>,
          << <<One, Zero, Zero>>, <<Zero, One, Zero>>, <<Zero, Zero, Small>> >>,
          << <<Zero, One, Zero>>, <<RNeg(Small), Zero, Zero>>, <<Zero, Zero, One>> >>,
          << <<One, Small, Zero>>, <<Zero, One, Zero>>, <<Zero, Zero, One>> >> } }

InitTolerance ==
    /\ InitInstance
    /\ InitCV
    /\ mat \in MatrixInputs \cup ToleranceInputs
    /\ mcall = NoMatrixCall
    /\ nmut = 0
    /\ InitApp

NextTolerance ==
    \/ Inverse
    \/ Determinant
    \/ Transpose
    \/ ElementAccess

SpecTolerance == InitTolerance /\ [][NextTolerance]_vars

(***************************************************************************)
(* Properties.  What follows states the claims; it models no code.         *)
(***************************************************************************)
Range(q) == {q[i] : i \in 1..Len(q)}
Indices(n) == [i \in 1..n |-> i - 1]
\* the validation indices the iterations done so far have logged, per fold
ValidOf(f) == foldLog[f].valid
TrainOf(f) == foldLog[f].train
SizesLogged == [f \in 1..Len(foldLog) |-> Len(ValidOf(f))]
FirstsLogged == [f \in 1..Len(foldLog) |-> ValidOf(f)[1]]
Contiguous(q) == \A j \in 1..Len(q) : q[j] = q[1] + j - 1

\* C1: for 1 <= k <= n the validation folds crossValidate builds are contiguous
\* index ranges, pairwise disjoint, of floor(n/k) examples each except the last,
\* which holds n - (k-1)*floor(n/k); once all k are built they cover 0..n-1.
C1_FoldsPartition ==
    (cvPc \in {"loop", "done"} /\ 1 <= folds /\ folds <= Len(cvData)) =>
        LET n == Len(cvData)
        IN  /\ \A f \in 1..Len(foldLog) :
                 /\ Len(ValidOf(f)) = IF f < folds THEN n \div folds
                                      ELSE n - (folds - 1) * (n \div folds)
                 /\ Contiguous(ValidOf(f))
            /\ \A f, g \in 1..Len(foldLog) :
                 f # g => Range(ValidOf(f)) \cap Range(ValidOf(g)) = {}
            /\ cvPc = "done" =>
                 /\ Len(foldLog) = folds
                 /\ UNION {Range(ValidOf(f)) : f \in 1..folds} = 0..(n - 1)

\* a call of 4 folds on 9 examples has returned: folds of 2, 2, 2 and 3
C1_Witness ==
    /\ cvPc = "done"
    /\ Len(cvData) = 9
    /\ folds = 4
    /\ SizesLogged = <<2, 2, 2, 3>>

\* C2 as amended: 5 folds on 25 examples are 5 folds of 5; 5 folds on 23
\* examples are folds 0-3 of 4 examples each and a last fold of 7, starting at
\* 0, 4, 8, 12, 16, their sizes summing to 23 with no overlap and no omission.
C2_FoldsOf25And23 ==
    (cvPc = "done" /\ folds = 5 /\ Len(cvData) \in {23, 25}) =>
        /\ Len(cvData) = 25 =>
             /\ SizesLogged = <<5, 5, 5, 5, 5>>
             /\ FirstsLogged = <<0, 5, 10, 15, 20>>
        /\ Len(cvData) = 23 =>
             /\ SizesLogged = <<4, 4, 4, 4, 7>>
             /\ FirstsLogged = <<0, 4, 8, 12, 16>>
        /\ \A f \in 1..5 : Contiguous(ValidOf(f))
        /\ \A f, g \in 1..5 : f # g => Range(ValidOf(f)) \cap Range(ValidOf(g)) = {}
        /\ UNION {Range(ValidOf(f)) : f \in 1..5} = 0..(Len(cvData) - 1)

C2_Witness ==
    /\ cvPc = "done"
    /\ folds = 5
    /\ Len(cvData) = 23
    /\ Len(foldLog) = 5
    /\ Len(ValidOf(5)) = 7

\* C2 as claimed: 5 folds on 25 examples are 5 folds of 5, and 5 folds on 23
\* examples are folds 0-3 of 5 examples each and a last fold of 3.
C2_Original ==
    (cvPc = "done" /\ folds = 5 /\ Len(cvData) \in {23, 25}) =>
        /\ Len(cvData) = 25 => SizesLogged = <<5, 5, 5, 5, 5>>
        /\ Len(cvData) = 23 => SizesLogged = <<5, 5, 5, 5, 3>>

\* C3: for 1 <= k <= n and every fold, the training set is the examples not in
\* the fold's validation set, in their original order: disjoint from it, and
\* together with it the whole dataset.
C3_TrainIsComplement ==
    (cvPc \in {"loop", "done"} /\ 1 <= folds /\ folds <= Len(cvData)) =>
        \A f \in 1..Len(foldLog) :
            /\ Range(TrainOf(f)) \cap Range(ValidOf(f)) = {}
            /\ Range(TrainOf(f)) \cup Range(ValidOf(f)) = 0..(Len(cvData) - 1)
            /\ TrainOf(f) = SelectSeq(Indices(Len(cvData)),
                                      LAMBDA i : i \notin Range(ValidOf(f)))
            /\ f = Len(foldLog) => (trainIdx = TrainOf(f) /\ validIdx = ValidOf(f))

\* the middle fold of 3 on 7 examples: validation 2, 3 and training 0, 1, 4, 5, 6
C3_Witness ==
    /\ cvPc = "loop"
    /\ Len(cvData) = 7
    /\ folds = 3
    /\ fold = 2
    /\ validIdx = <<2, 3>>
    /\ trainIdx = <<0, 1, 4, 5, 6>>

\* fold f (0-based) of k on the dataset d as the specification defines it
SpecLo(d, k, f) == f * (Len(d) \div k)
SpecHi(d, k, f) == IF f = k - 1 THEN Len(d) ELSE (f + 1) * (Len(d) \div k)
SpecValid(d, k, f) == SubSeq(d, SpecLo(d, k, f) + 1, SpecHi(d, k, f))
SpecTrain(d, k, f) ==
    SubSeq(d, 1, SpecLo(d, k, f)) \o SubSeq(d, SpecHi(d, k, f) + 1, Len(d))
SpecFit(d, k, f) == train(NewModel, SpecTrain(d, k, f))
\* per fold 1..k: did its training succeed, and the RMSE on its validation set
SpecFolds(d, k) ==
    [f \in 1..k |->
        LET fit == SpecFit(d, k, f - 1)
        IN  IF fit.ret
            THEN [ok |-> TRUE, rmse |-> calculateRMSE(fit.m, SpecValid(d, k, f - 1)).val]
            ELSE [ok |-> FALSE, rmse |-> Zero]]
SpecSucceeded(r) == SelectSeq(r, LAMBDA x : x.ok)
SumRMSE(r) == SumSeq([f \in 1..Len(r) |-> r[f].rmse])

\* C4: crossValidate returns the mean of the RMSEs of exactly the folds whose
\* training succeeded; it returns -1.0 if and only if none succeeded, and every
\* other result is >= 0.
C4_MeanOfSucceededFolds ==
    cvPc = "done" =>
        LET ok == SpecSucceeded(SpecFolds(cvData, folds))
        IN  /\ cvResult.kind = "value"
            /\ Len(foldRMSEs) = Len(ok)
            /\ (ok = <<>>) <=> (cvResult.val = RInt(-1))
            /\ ok # <<>> => cvResult.val = RDiv(SumRMSE(ok), RInt(Len(ok)))
            /\ cvResult.val # RInt(-1) => RGeq(cvResult.val, Zero)

\* a call has returned a mean above 0 of some folds' RMSEs, others having failed
C4_Witness ==
    /\ cvPc = "done"
    /\ Len(foldRMSEs) >= 2
    /\ Len(foldRMSEs) < folds
    /\ \E f \in 1..Len(foldLog) : ~foldLog[f].trained
    /\ RLess(Zero, cvResult.val)

\* C5 as amended: for 1 <= k <= n crossValidate returns a mean RMSE or the
\* sentinel and fails through no other channel; for k > n it fails with
\* invalid_argument.
C5_ReturnsOrInvalidArgument ==
    cvPc # "idle" =>
        /\ (1 <= folds /\ folds <= Len(cvData)) =>
             /\ cvPc \in {"loop", "done"}
             /\ cvPc = "loop" => fold <= folds
             /\ cvPc = "done" =>
                  /\ cvResult.kind = "value"
                  /\ cvResult.val = RInt(-1) \/ RGeq(cvResult.val, Zero)
        /\ folds > Len(cvData) =>
             /\ cvPc = "threw"
             /\ cvResult.kind = "invalid_argument"

\* a call with one fold more than the examples has thrown
C5_Witness ==
    /\ cvPc = "threw"
    /\ Len(cvData) >= 1
    /\ folds = Len(cvData) + 1
    /\ cvResult.kind = "invalid_argument"

\* C5 as claimed: for every dataset and every fold count k >= 1, also k above
\* the dataset size, crossValidate returns a mean RMSE or the sentinel and never
\* fails through another channel.
C5_Original ==
    (cvPc # "idle" /\ folds >= 1) => cvPc \in {"loop", "done"}

PredictOps == {"predictFeatures", "predictPoint", "predictDataset"}
ScoreOps == {"calculateRMSE", "calculateMSE", "calculateMAE", "calculateRSquared"}
TrainOps == {"train", "trainWithRegularization"}

\* C6 as claimed: while no training has succeeded, predict and every scoring
\* operation fail with NotTrained; from the first successful training on the
\* instance stays trained and they no longer fail with NotTrained.
C6_Original ==
    /\ (~everTrained /\ call.op \in PredictOps \cup ScoreOps) =>
           call.out = Thrown("NotTrained")
    /\ everTrained => isTrained
    /\ (everTrained /\ call.op \in PredictOps \cup ScoreOps) =>
           call.out # Thrown("NotTrained")

\* sum over i of coefficient_i * feature_i, written out
Dot6(c, x) ==
    RAdd(RMul(c[1], x[1]), RAdd(RMul(c[2], x[2]), RAdd(RMul(c[3], x[3]),
    RAdd(RMul(c[4], x[4]), RAdd(RMul(c[5], x[5]), RMul(c[6], x[6]))))))

\* C7: predict(features) fails with NotTrained on an untrained instance whatever
\* the length of features; on a trained one it fails with InvalidFeatureCount
\* when the length is not 6 and otherwise returns the sum of coefficient_i *
\* feature_i; the instance is left as it was.
C7_PredictFeatures ==
    [][call'.op = "predictFeatures" =>
        /\ UNCHANGED <<coefficients, isTrained, trainRMSE>>
        /\ call'.out = IF ~isTrained THEN Thrown("NotTrained")
                       ELSE IF Len(call'.arg) # 6 THEN Thrown("InvalidFeatureCount")
                       ELSE Returned(Dot6(coefficients, call'.arg))]_vars

\* a trained instance has predicted a value other than 0 from 6 features
C7_Witness ==
    /\ call.op = "predictFeatures"
    /\ isTrained
    /\ Len(call.arg) = 6
    /\ call.out.ok
    /\ call.out.val # Zero

\* C8 as claimed: predict(examples) fails with NotTrained on an untrained
\* instance for every collection, the empty one included; on a trained instance
\* it returns the predictions of the examples, one per example, in input order.
C8_Original ==
    call.op = "predictDataset" =>
        IF ~isTrained THEN call.out = Thrown("NotTrained")
        ELSE /\ call.out.ok
             /\ Len(call.out.val) = Len(call.arg)
             /\ \A i \in 1..Len(call.arg) :
                  call.out.val[i] = Dot6(coefficients, getFeatureVector(call.arg[i]))

\* C9: train and trainWithRegularization given zero examples return failure
\* (EmptyInput) and leave the trained flag and the coefficients as they were.
C9_EmptyInput ==
    [][(call'.op \in TrainOps /\ call'.arg = <<>>) =>
        /\ call'.out = [ret |-> FALSE, err |-> "EmptyInput"]
        /\ UNCHANGED <<coefficients, isTrained>>]_vars

\* a trained instance has been given zero examples to train on, and is trained
C9_Witness ==
    /\ call.op \in TrainOps
    /\ call.arg = <<>>
    /\ ~call.out.ret
    /\ isTrained

\* the rank of a set of feature rows, by row reduction over the rationals
RECURSIVE RankFrom(_, _)
RankFrom(rows, col) ==
    IF col > 6 \/ rows = <<>> THEN 0
    ELSE IF \A r \in 1..Len(rows) : rows[r][col] = Zero THEN RankFrom(rows, col + 1)
    ELSE LET p == CHOOSE r \in 1..Len(rows) : rows[r][col] # Zero
             rest == [r \in 1..(Len(rows) - 1) |->
                        LET row == rows[IF r < p THEN r ELSE r + 1]
                        IN  [j \in 1..6 |->
                               RSub(row[j], RMul(RDiv(row[col], rows[p][col]), rows[p][j]))]]
         IN  1 + RankFrom(rest, col + 1)
\* the number of linearly independent examples of each training dataset
RankOf == [d \in TrainDatasets |-> RankFrom([i \in 1..Len(d) |-> getFeatureVector(d[i])], 1)]

C11_RidgeZeroIsTrain ==
    [][(call'.op = "trainWithRegularization" /\ call'.lambda = Zero) =>
        LET r == train(Self, call'.arg)
        IN  /\ call'.out = [ret |-> r.ret, err |-> r.err]
            /\ coefficients' = r.m.coefficients
            /\ isTrained' = r.m.isTrained
            /\ trainRMSE' = r.m.trainRMSE]_vars

\* ridge training with lambda = 0 has succeeded and has left the coefficients
\* that train gives a fresh instance
C11_Witness ==
    /\ call.op = "trainWithRegularization"
    /\ call.lambda = Zero
    /\ call.out.ret
    /\ Len(call.arg) >= 6
    /\ coefficients = train(NewModel, call.arg).m.coefficients
    /\ \E i \in 1..6 : coefficients[i] # Zero

\* coefficient vectors that some of the training datasets are generated from
TrueCoefficients ==
    { [i \in 1..6 |-> RInt(<<2, 3, 0, 0, 0, 0>>[i])],
      [i \in 1..6 |-> RInt(<<2, 3, 1, 4, 2, 5>>[i])],
      [i \in 1..6 |-> RInt(<<2, 4, 1, 4, 2, 5>>[i])] }
\* every target of d is exactly the combination c of the example's features
Generates(c, d) ==
    /\ d # <<>>
    /\ \A i \in 1..Len(d) : getTarget(d[i]) = Dot6(c, getFeatureVector(d[i]))

WellShaped(m) ==
    /\ Len(m.data) = m.rows
    /\ \A i \in 1..Len(m.data) : Len(m.data[i]) = m.cols

\* the determinant by expansion along the first row
Minor(m, col) ==
    [rows |-> m.rows - 1, cols |-> m.cols - 1,
     data |-> [i \in 1..(m.rows - 1) |-> [j \in 1..(m.cols - 1) |->
                 m.data[i + 1][IF j < col THEN j ELSE j + 1]]]]
RECURSIVE LaplaceDet(_)
LaplaceDet(m) ==
    IF m.rows = 0 THEN One
    ELSE SumSeq([j \in 1..m.cols |->
                   RMul(IF j % 2 = 1 THEN m.data[1][j] ELSE RNeg(m.data[1][j]),
                        LaplaceDet(Minor(m, j)))])

\* C13: for every square matrix whose determinant is not below the tolerance,
\* inverse() returns a matrix and the matrix times it is the identity of the
\* same size.
C13_MatrixTimesInverse ==
    [][(mcall'.op = "inverse" /\ isSquare(mat) /\ ~BelowEpsilon(LaplaceDet(mat))) =>
        /\ mcall'.out.ok
        /\ MatMul(mat, mcall'.out.val) = Returned(identity(mat.rows))]_vars

\* a 3 x 3 matrix whose first pivot needs a row swap has been inverted
C13_Witness ==
    /\ mcall.op = "inverse"
    /\ mat.rows = 3
    /\ mat.data[1][1] = Zero
    /\ mcall.out.ok
    /\ mcall.out.val # mat

C15_Transpose ==
    [][mcall'.op = "transpose" =>
        LET t == mcall'.out.val
        IN  /\ t.rows = mat.cols
            /\ t.cols = mat.rows
            /\ WellShaped(t)
            /\ \A i \in 1..mat.rows, j \in 1..mat.cols : t.data[j][i] = mat.data[i][j]
            /\ transpose(t) = mat
            /\ mat' = mat]_vars

\* a 2 x 3 matrix has been transposed
C15_Witness ==
    /\ mcall.op = "transpose"
    /\ mat.rows = 2
    /\ mat.cols = 3
    /\ mcall.out.val.rows = 3

\* C16: + and - fail with DimensionMismatch exactly when the shapes differ and
\* otherwise return a matrix of the operands' shape; * fails with
\* DimensionMismatch exactly when lhs.cols # rhs.rows and otherwise returns the
\* lhs.rows x rhs.cols matrix of the sums over k of lhs(i,k) * rhs(k,j); the
\* operands are left as they were.
C16_AddSubtractMultiply ==
    [][mcall'.op \in {"add", "subtract", "multiply"} =>
        LET other == mcall'.args[1]
            out == mcall'.out
        IN  /\ mat' = mat
            /\ mcall'.op \in {"add", "subtract"} =>
                 IF mat.rows # other.rows \/ mat.cols # other.cols
                 THEN out = Thrown("DimensionMismatch")
                 ELSE /\ out.ok
                      /\ out.val.rows = mat.rows
                      /\ out.val.cols = mat.cols
                      /\ WellShaped(out.val)
            /\ mcall'.op = "multiply" =>
                 IF mat.cols # other.rows
                 THEN out = Thrown("DimensionMismatch")
                 ELSE /\ out.ok
                      /\ out.val.rows = mat.rows
                      /\ out.val.cols = other.cols
                      /\ WellShaped(out.val)
                      /\ \A i \in 1..mat.rows, j \in 1..other.cols :
                           out.val.data[i][j] =
                               SumSeq([k \in 1..mat.cols |->
                                         RMul(mat.data[i][k], other.data[k][j])])]_vars

\* a 2 x 3 matrix has been multiplied by a 3 x 2 one
C16_Witness ==
    /\ mcall.op = "multiply"
    /\ mat.rows = 2
    /\ mat.cols = 3
    /\ mcall.args[1].cols = 2
    /\ mcall.out.ok
    /\ mcall.out.val.data[1][1] # Zero

\* C17: (A * B) * C equals A * (B * C) for all matrices of compatible shapes.
C17_MultiplyAssociative ==
    [][(mcall'.op = "multiply" /\ mcall'.out.ok) =>
        \A C \in MatrixInputs :
            mcall'.out.val.cols = C.rows =>
                MatMul(mcall'.out.val, C) = MatMul(mat, MatMul(mcall'.args[1], C).val)]_vars

\* a 3 x 2 matrix has been multiplied by a 2 x 3 one, and the product can be
\* multiplied by a 3 x 3 matrix
C17_Witness ==
    /\ mcall.op = "multiply"
    /\ mat.rows = 3
    /\ mat.cols = 2
    /\ mcall.args[1].cols = 3
    /\ mcall.out.ok
    /\ \E C \in MatrixInputs : C.rows = 3 /\ C.cols = 3 /\ MatMul(mcall.out.val, C).val # mcall.out.val

C19_Original == WellShaped(mat)

TiedColumn == MatrixFromRows(Rows(<< <<1, 1, 0>>, <<-1, 1, 0>>, <<1, 0, 2>> >>))
EliminationInputs == MatrixInputs \cup ToleranceInputs \cup {TiedColumn}

InitSteps ==
    /\ InitInstance
    /\ InitCV
    /\ mat \in EliminationInputs
    /\ mcall = NoMatrixCall
    /\ nmut = 0
    /\ InitEvaluator
    /\ InitElimination
    /\ InitMenu

\* inverse(): the square test and the augmented matrix
InverseCall ==
    /\ elimPc = "idle"
    /\ elimOp' = "inverse"
    /\ IF ~isSquare(mat)
       THEN /\ elimPc' = "threw"
            /\ elimResult' = Thrown("NotSquare")
            /\ UNCHANGED work
       ELSE /\ elimPc' = "pivot"
            /\ work' = Augmented(mat)
            /\ UNCHANGED elimResult
    /\ UNCHANGED <<pivotCol, maxRow, det>>
    /\ UNCHANGED <<instVars, call, cvVars, matVars, evalVars, menuVars>>

\* determinant(): the square test, the sizes 1 and 2, and the scratch copy
DeterminantCall ==
    /\ elimPc = "idle"
    /\ elimOp' = "determinant"
    /\ IF ~isSquare(mat)
       THEN /\ elimPc' = "threw"
            /\ elimResult' = Thrown("NotSquare")
            /\ UNCHANGED work
       ELSE IF mat.rows \in {1, 2}
       THEN /\ elimPc' = "done"
            /\ elimResult' = determinant(mat)
            /\ UNCHANGED work
       ELSE /\ elimPc' = "pivot"
            /\ work' = MatrixCopy(mat)
            /\ UNCHANGED elimResult
    /\ UNCHANGED <<pivotCol, maxRow, det>>
    /\ UNCHANGED <<instVars, call, cvVars, matVars, evalVars, menuVars>>

\* the pivot search of iteration i, the tolerance test and the row exchange
PivotStep ==
    /\ elimPc = "pivot"
    /\ pivotCol < work.rows
    /\ LET i == pivotCol + 1
           found == FindPivot(work, i, i + 1, i)
       IN  /\ maxRow' = found - 1
           /\ IF BelowEpsilon(work.data[found][i])
              THEN /\ elimPc' = IF elimOp = "inverse" THEN "threw" ELSE "done"
                   /\ elimResult' = IF elimOp = "inverse" THEN Thrown("Singular")
                                    ELSE Returned(Zero)
                   /\ UNCHANGED <<work, det>>
              ELSE /\ elimPc' = "eliminate"
                   /\ work' = IF found # i THEN swapRows(work, i, found) ELSE work
                   /\ det' = IF elimOp = "determinant" /\ found # i
                             THEN RMul(det, RInt(-1)) ELSE det
                   /\ UNCHANGED elimResult
    /\ UNCHANGED <<elimOp, pivotCol>>
    /\ UNCHANGED <<instVars, call, cvVars, matVars, evalVars, menuVars>>

\* inverse: the pivot row is divided by the pivot and column i is cleared in
\* every other row; determinant: det takes the pivot and column i is cleared
\* below it
EliminateStep ==
    /\ elimPc = "eliminate"
    /\ LET i == pivotCol + 1
       IN  IF elimOp = "inverse"
           THEN /\ work' = EliminateAll(
                              multiplyRow(work, i, RDiv(One, work.data[i][i])), i, 1)
                /\ UNCHANGED det
           ELSE /\ det' = RMul(det, work.data[i][i])
                /\ work' = EliminateBelow(work, i, i + 1)
    /\ pivotCol' = pivotCol + 1
    /\ elimPc' = "pivot"
    /\ UNCHANGED <<elimOp, maxRow, elimResult>>
    /\ UNCHANGED <<instVars, call, cvVars, matVars, evalVars, menuVars>>

\* after the last iteration: inverse() extracts the right half, determinant()
\* returns det
EliminationReturn ==
    /\ elimPc = "pivot"
    /\ pivotCol >= work.rows
    /\ elimPc' = "done"
    /\ elimResult' =
         IF elimOp = "inverse"
         THEN Returned([rows |-> mat.rows, cols |-> mat.rows,
                        data |-> [i \in 1..mat.rows |-> [j \in 1..mat.rows |->
                                    work.data[i][j + mat.rows]]]])
         ELSE Returned(det)
    /\ UNCHANGED <<elimOp, work, pivotCol, maxRow, det>>
    /\ UNCHANGED <<instVars, call, cvVars, matVars, evalVars, menuVars>>

NextSteps ==
    \/ InverseCall
    \/ DeterminantCall
    \/ PivotStep
    \/ EliminateStep
    \/ EliminationReturn

SpecSteps == InitSteps /\ [][NextSteps]_vars

(***************************************************************************)
(* The menu loop of main, one step per option chosen.  The file read by    *)
(* option 1 and the numbers typed by the user are the inputs; an exception *)
(* that main does not catch ends the program ("aborted").                  *)
(***************************************************************************)
\* what Data/machine.data may hold: a file that cannot be opened, or one
\* whose valid lines are these examples
DataFiles ==
    {[opens |-> FALSE, points |-> <<>>]}
        \cup {[opens |-> TRUE, points |-> Window(0, n)] : n \in {0, 1, 5, 8}}
\* Dataset::loadFromFile: data is replaced once the file is open, and the
\* result is !data.empty()
loadFromFile(data, file) ==
    IF ~file.opens THEN [ret |-> FALSE, data |-> data]
    ELSE [ret |-> file.points # <<>>, data |-> file.points]
\* Dataset::shuffle: a permutation of the data; the ones explored are the
\* rotations by the numbers of ShuffleRotations
ShuffleRotations == {0, 2}
shuffle(data, r) == [i \in 1..Len(data) |-> data[((i - 1 + r) % Len(data)) + 1]]
\* Dataset::split(0.8, trainSet, testSet) after the shuffle
split(data) ==
    LET trainSize == (4 * Len(data)) \div 5
    IN  [train |-> SubSeq(data, 1, trainSize),
         test |-> SubSeq(data, trainSize + 1, Len(data))]
\* the fold counts typed at option 6
MenuFolds == -1..3

Chosen(option, invoked) == menuLast' = [option |-> option, invoked |-> invoked]
otherVars == <<cvVars, matVars, evalVars, elimVars>>

\* option 1
LoadOption ==
    /\ menuPc = "menu"
    /\ \E file \in DataFiles, r \in ShuffleRotations :
        LET loaded == loadFromFile(fullDataset, file)
            parts == split(shuffle(loaded.data, r))
        IN  IF loaded.ret
            THEN /\ dataLoaded' = TRUE
                 /\ everLoaded' = TRUE
                 /\ fullDataset' = shuffle(loaded.data, r)
                 /\ trainDataset' = parts.train
                 /\ testDataset' = parts.test
            ELSE /\ fullDataset' = loaded.data
                 /\ UNCHANGED <<dataLoaded, everLoaded, trainDataset, testDataset>>
    /\ Chosen(1, FALSE)
    /\ UNCHANGED <<menuPc, modelTrained, instVars, call, otherVars>>

\* options 2 and 3 past their guard: r is what the training call returned
TrainedByMenu_FlagAlways(option, op, lambda, r) ==
    /\ coefficients' = r.m.coefficients
    /\ isTrained' = r.m.isTrained
    /\ trainRMSE' = r.m.trainRMSE
    /\ everTrained' = (everTrained \/ r.ret)
    /\ call' = [op |-> op, arg |-> trainDataset, lambda |-> lambda,
                out |-> [ret |-> r.ret, err |-> r.err]]
    /\ modelTrained' = TRUE
    /\ Chosen(option, TRUE)
TrainedByMenu(option, op, lambda, r) ==
    /\ coefficients' = r.m.coefficients
    /\ isTrained' = r.m.isTrained
    /\ trainRMSE' = r.m.trainRMSE
    /\ everTrained' = (everTrained \/ r.ret)
    /\ call' = [op |-> op, arg |-> trainDataset, lambda |-> lambda,
                out |-> [ret |-> r.ret, err |-> r.err]]
    /\ modelTrained' = (modelTrained \/ r.ret)
    /\ Chosen(option, TRUE)

\* an option stopped by its guard
Refused(option) ==
    /\ Chosen(option, FALSE)
    /\ UNCHANGED <<modelTrained, instVars, call>>

\* option 2
TrainOption ==
    /\ menuPc = "menu"
    /\ IF ~dataLoaded THEN Refused(2)
       ELSE TrainedByMenu(2, "train", Zero, train(Self, trainDataset))
    /\ UNCHANGED <<menuPc, dataLoaded, fullDataset, trainDataset, testDataset, everLoaded,
                   otherVars>>

\* option 3
RidgeOption ==
    /\ menuPc = "menu"
    /\ IF ~dataLoaded THEN Refused(3)
       ELSE \E lambda \in Lambdas :
                TrainedByMenu(3, "trainWithRegularization", lambda,
                              trainWithRegularization(Self, trainDataset, lambda))
    /\ UNCHANGED <<menuPc, dataLoaded, fullDataset, trainDataset, testDataset, everLoaded,
                   otherVars>>

\* options 4, 7 and 9 past their guard: an Evaluator of the model evaluates
\* the test set (out is what evaluate did), and main catches nothing
EvaluatedByMenu(option, out) ==
    /\ call' = [op |-> "evaluate", arg |-> testDataset, lambda |-> Zero, out |-> out]
    /\ menuPc' = IF out.ok THEN "menu" ELSE "aborted"
    /\ Chosen(option, TRUE)

\* options 4 (evaluate), 7 (generateReport, residualAnalysis) and 9
\* (residualAnalysis)
EvaluateOption ==
    /\ menuPc = "menu"
    /\ IF ~modelTrained
       THEN \E option \in {4, 7, 9} :
                /\ Chosen(option, FALSE)
                /\ UNCHANGED <<menuPc, call>>
       ELSE \E out \in {evaluate(Self, testDataset)} :
                \E option \in {4, 7, 9} : EvaluatedByMenu(option, out)
    /\ UNCHANGED <<dataLoaded, modelTrained, fullDataset, trainDataset, testDataset,
                   everLoaded, instVars, otherVars>>

\* option 5: makeIndividualPrediction tests getIsTrained() and catches what
\* predict throws
PredictOption ==
    /\ menuPc = "menu"
    /\ IF ~isTrained
       THEN /\ Chosen(5, FALSE)
            /\ UNCHANGED call
       ELSE \E features \in {f \in FeatureSeqs : Len(f) = 6} :
                /\ call' = [op |-> "predictFeatures", arg |-> features, lambda |-> Zero,
                            out |-> predictFeatures(Self, features)]
                /\ Chosen(5, TRUE)
    /\ UNCHANGED <<menuPc, dataLoaded, modelTrained, fullDataset, trainDataset, testDataset,
                   everLoaded, instVars, otherVars>>

\* option 6: crossValidate(fullDataset, folds); its invalid_argument is not
\* caught, and folds = 0 divides by zero (a trap, or the call goes on)
CrossValidateOption ==
    /\ menuPc = "menu"
    /\ IF ~dataLoaded
       THEN /\ Chosen(6, FALSE)
            /\ UNCHANGED menuPc
       ELSE \E k \in MenuFolds :
                /\ Chosen(6, TRUE)
                /\ IF TooManyFolds(Len(fullDataset), k) THEN menuPc' = "aborted"
                   ELSE IF k = 0 THEN menuPc' \in {"aborted", "menu"}
                   ELSE menuPc' = "menu"
    /\ UNCHANGED <<dataLoaded, modelTrained, fullDataset, trainDataset, testDataset,
                   everLoaded, instVars, call, otherVars>>

\* option 8: displayModel and displayEquation
DisplayOption ==
    /\ menuPc = "menu"
    /\ Chosen(8, modelTrained)
    /\ UNCHANGED <<menuPc, dataLoaded, modelTrained, fullDataset, trainDataset, testDataset,
                   everLoaded, instVars, call, otherVars>>

\* option 0, and a choice that could not be read
ExitOption ==
    /\ menuPc = "menu"
    /\ menuPc' = "exited"
    /\ Chosen(0, FALSE)
    /\ UNCHANGED <<dataLoaded, modelTrained, fullDataset, trainDataset, testDataset,
                   everLoaded, instVars, call, otherVars>>

\* any other number
InvalidOption ==
    /\ menuPc = "menu"
    /\ Chosen(10, FALSE)
    /\ UNCHANGED <<menuPc, dataLoaded, modelTrained, fullDataset, trainDataset, testDataset,
                   everLoaded, instVars, call, otherVars>>

NextMenu ==
    \/ LoadOption
    \/ TrainOption
    \/ RidgeOption
    \/ EvaluateOption
    \/ PredictOption
    \/ CrossValidateOption
    \/ DisplayOption
    \/ ExitOption
    \/ InvalidOption

SpecMenu == Init /\ [][NextMenu]_vars

(***************************************************************************)
(* Inverse and determinant under the pivot tolerance.                      *)
(***************************************************************************)
\* C21 (as stated): for every square matrix of size n >= 1, inverse() fails
\* with Singular if and only if determinant() returns 0.
C21_Original ==
    [][(mcall'.op = "determinant" /\ isSquare(mat) /\ mat.rows >= 1)
        => (inverse(mat) = Thrown("Singular") <=> mcall'.out = Returned(Zero))]_vars

\* the two agree from size 3 on, where determinant() tests its pivots
C21_FromSizeThree ==
    [][(mcall'.op = "determinant" /\ isSquare(mat) /\ mat.rows >= 3)
        => (inverse(mat) = Thrown("Singular") <=> mcall'.out = Returned(Zero))]_vars

(***************************************************************************)
(* The metrics of the Evaluator and of the regressor.                      *)
(***************************************************************************)
Targets(d) == [i \in 1..Len(d) |-> getTarget(d[i])]
Squares(a, b) == SumSeq([i \in 1..Len(a) |-> RMul(RSub(a[i], b[i]), RSub(a[i], b[i]))])
MeanOf(a) == RDivCount(SumSeq(a), Len(a))
\* R-squared of the predictions p for the actual values a, of the same length
SpecRSquared(a, p) ==
    IF a = p THEN One
    ELSE IF \A i, j \in 1..Len(a) : a[i] = a[j] THEN One
    ELSE RSub(One, RDiv(Squares(a, p), Squares(a, [i \in 1..Len(a) |-> MeanOf(a)])))

NonZero(a) == {i \in 1..Len(a) : a[i] # Zero}
SpecMAPE(a, p) ==
    IF NonZero(a) = {} THEN Zero
    ELSE RDivCount(
            SumSeq([i \in 1..Len(a) |->
                      IF i \in NonZero(a)
                      THEN RMul(RAbs(RDiv(RSub(a[i], p[i]), a[i])), RInt(100))
                      ELSE Zero]),
            Cardinality(NonZero(a)))

\* C23: calculateMAPE over two non-empty sequences of equal length is the mean
\* of |(actual - predicted) / actual| * 100 over the positions where actual is
\* not 0, and 0 when there is no such position.
C23_MAPE ==
    [][(call'.op = "calculateMAPE" /\ Len(actual) = Len(predicted) /\ actual # <<>>) =>
            call'.out = Returned(SpecMAPE(actual, predicted))]_vars

\* calculateMAPE has returned 50 for the actual values 0, 2 and the
\* predictions 3, 3
C23_Witness ==
    /\ call.op = "calculateMAPE"
    /\ actual = <<Zero, RInt(2)>>
    /\ predicted = <<RInt(3), RInt(3)>>
    /\ call.out = Returned(RInt(50))

\* C24: calculateResiduals fails on sequences of different lengths and
\* otherwise returns, in order, actual[i] - predicted[i]; a result of evaluate
\* comes from a trained model and has one prediction, one actual value and one
\* residual per test example, in the order of the examples, with
\* residuals[i] = actuals[i] - predictions[i].
C24_Residuals ==
    [][/\ call'.op = "calculateResiduals" =>
            IF Len(actual) # Len(predicted) THEN ~call'.out.ok
            ELSE /\ call'.out.ok
                 /\ Len(call'.out.val) = Len(actual)
                 /\ \A i \in 1..Len(actual) :
                        call'.out.val[i] = RSub(actual[i], predicted[i])
       /\ (call'.op = "evaluate" /\ call'.out.ok) =>
            LET r == call'.out.val
                d == call'.arg
            IN  /\ isTrained
                /\ Len(r.predictions) = Len(d)
                /\ Len(r.actuals) = Len(d)
                /\ Len(r.residuals) = Len(d)
                /\ \A i \in 1..Len(d) :
                     /\ r.actuals[i] = getTarget(d[i])
                     /\ r.predictions[i] = predictPoint(Self, d[i]).val
                     /\ r.residuals[i] = RSub(r.actuals[i], r.predictions[i])]_vars

\* evaluate has returned a result with a residual that is not 0
C24_Witness ==
    /\ call.op = "evaluate"
    /\ call.out.ok
    /\ Len(call.out.val.residuals) = 4
    /\ \E i \in 1..4 : call.out.val.residuals[i] # Zero

IdentityColumns(m, c) ==
    \A col \in 1..c : \A row \in 1..m.rows :
        m.data[row][col] = IF row = col THEN One ELSE Zero
RightHalf(m) ==
    [rows |-> m.rows, cols |-> m.rows,
     data |-> [i \in 1..m.rows |-> [j \in 1..m.rows |-> m.data[i][j + m.rows]]]]

\* C26: in inverse(), once the loop has processed pivot column i, the columns
\* 0..i of the left half of the augmented matrix are those of the identity
\* (1 at the pivot, 0 in every other row, above and below); on normal
\* termination the left half is the identity and the right half is returned.
C26_GaussJordan ==
    elimOp = "inverse" =>
        /\ elimPc \in {"pivot", "eliminate"} => IdentityColumns(work, pivotCol)
        /\ elimPc = "done" =>
            /\ IdentityColumns(work, mat.rows)
            /\ elimResult = Returned(RightHalf(work))
            /\ elimResult = inverse(mat)

\* inverse() of a 3 x 3 matrix with an entry above the diagonal has returned
C26_Witness ==
    /\ elimOp = "inverse"
    /\ elimPc = "done"
    /\ mat.rows = 3
    /\ mat.data[1][2] # Zero

\* C27: at every pivot step i of inverse() and of determinant() (n >= 3) the
\* chosen row is at or below row i and holds the largest magnitude of column
\* i among those rows, the lowest such row on ties; the tolerance test is made
\* on that entry; and the step exchanges rows i and the chosen row and leaves
\* every other row where it was.
C27_PartialPivoting ==
    [][(elimPc = "pivot" /\ pivotCol < work.rows) =>
        LET i == pivotCol + 1
            r == maxRow' + 1
        IN  /\ r \in i..work.rows
            /\ \A k \in i..work.rows :
                 RGeq(RAbs(work.data[r][i]), RAbs(work.data[k][i]))
            /\ \A k \in i..(r - 1) :
                 RLess(RAbs(work.data[k][i]), RAbs(work.data[r][i]))
            /\ BelowEpsilon(work.data[r][i]) <=> elimPc' # "eliminate"
            /\ \A k \in 1..work.rows :
                 work'.data[k] = IF elimPc' # "eliminate" THEN work.data[k]
                                 ELSE IF k = i THEN work.data[r]
                                 ELSE IF k = r THEN work.data[i]
                                 ELSE work.data[k]]_vars

\* determinant() has exchanged the pivot row with a row below it
C27_Witness ==
    /\ elimOp = "determinant"
    /\ elimPc = "eliminate"
    /\ maxRow > pivotCol

(***************************************************************************)
(* crossValidate with one fold, and with no fold.                          *)
(***************************************************************************)
\* C28: crossValidate with k = 1 on a non-empty dataset puts every example in
\* the validation set of its single fold and none in the training set, the
\* training fails, no RMSE is recorded and the call returns the sentinel -1.
C28_SingleFold ==
    (cvPc # "idle" /\ folds = 1 /\ Len(cvData) >= 1) =>
        /\ cvPc \in {"loop", "done"}
        /\ foldRMSEs = <<>>
        /\ fold >= 1 =>
            /\ fold = 1
            /\ validIdx = [j \in 1..Len(cvData) |-> j - 1]
            /\ trainIdx = <<>>
            /\ Len(foldLog) = 1
            /\ ~foldLog[1].trained
        /\ cvPc = "done" => (fold = 1 /\ cvResult = [kind |-> "value", val |-> RInt(-1)])

\* a call with one fold on three examples or more has returned
C28_Witness ==
    /\ cvPc = "done"
    /\ folds = 1
    /\ Len(cvData) >= 3
    /\ cvResult.val = RInt(-1)

\* C29 (as stated): crossValidate rejects every fold count k <= 0 with an
\* invalid-argument error before the fold size is computed, for every
\* dataset, the empty one included.
C29_Original ==
    (cvPc # "idle" /\ folds <= 0) =>
        (cvPc = "threw" /\ cvResult.kind = "invalid_argument")

(***************************************************************************)
(* The guards of the menu.                                                 *)
(***************************************************************************)
\* C30: in every sequence of menu options, modelTrained is true exactly when
\* the model is trained; the options 4, 7, 8 and 9 reach the evaluator or the
\* model only when the model is trained; and the options 2 and 3 reach the
\* training only after a dataset has been loaded successfully.
C30_MenuGuards ==
    /\ [](modelTrained <=> isTrained)
    /\ [][(menuLast'.option \in {4, 7, 8, 9} /\ menuLast'.invoked) => isTrained]_vars
    /\ [][(menuLast'.option \in {2, 3} /\ menuLast'.invoked) =>
            (everLoaded /\ dataLoaded)]_vars

\* the evaluation of option 4, 7 or 9 has run on a trained model
C30_Witness ==
    /\ menuLast.option \in {4, 7, 9}
    /\ menuLast.invoked
    /\ call.op = "evaluate"
    /\ call.out.ok
    /\ modelTrained
====
